---- MODULE Spec2Model ----
(***************************************************************************)
(* Model of the decision tree classifier of decision_tree.py and of the    *)
(* feature selection heuristic of id3.py.                                  *)
(*                                                                         *)
(* A dataset is a sequence of examples <<features, label>>: data[0] of the *)
(* source is e[1] here, data[1] is e[2].  A feature mapping is a function  *)
(* from feature names to values.  A Python set is modelled by a sequence   *)
(* without repetitions: its elements in the order an iteration over the    *)
(* set yields them.  That order is fixed by hash values (object addresses  *)
(* for Feature objects), so every call draws it anew.                      *)
(***************************************************************************)
EXTENDS Integers, Sequences, FiniteSets, TLC

\* longest training dataset
MaxData == 3
\* longest dataset handed to evaluate
MaxTest == 2

FeatureNames == {"x", "y", "z"}
Labels == {"yes", "no"}

\* values a feature takes in the training data
Dom(f) == IF f = "z" THEN {"a"} ELSE {"a", "b"}
\* values a feature takes in a query: "c" is never seen in training
QueryDom(f) == IF f = "x" THEN Dom(f) \cup {"c"} ELSE Dom(f)

\* schemas of the training data: no feature, the single feature x, or all
\* three
Schemas == {{}, {"x"}, FeatureNames}

\* feature mappings over the names S
Mappings(S) == {m \in [S -> {"a", "b"}] : \A f \in S : m[f] \in Dom(f)}
Examples(S) == Mappings(S) \X Labels
SeqsUpTo(E, n) == UNION {[1..k -> E] : k \in 0..n}
\* training datasets: uniform schema, at most MaxData examples
Datasets == UNION {SeqsUpTo(Examples(S), MaxData) : S \in Schemas}
\* training datasets of the trees evaluate is run on
EvalDatasets == SeqsUpTo(Examples({"x"}), MaxData)

\* the mappings classify is called with: any feature may lack a value
Queries ==
    UNION {{m \in [S -> {"a", "b", "c"}] : \A f \in S : m[f] \in QueryDom(f)} :
              S \in SUBSET FeatureNames}
\* the datasets evaluate is called with: mappings with or without x
TestExamples ==
    {m \in Queries : DOMAIN m \subseteq {"x"}} \X Labels
TestDatasets == SeqsUpTo(TestExamples, MaxTest)

\* the iteration orders of a set S
Orders(S) == {s \in [1..Cardinality(S) -> S] : \A i, j \in 1..Cardinality(S) : s[i] = s[j] => i = j}

\* Python's None as a classification, and the absent node / edge
None == "None"
NoNode == <<>>
NoEdge == <<>>

Range(s) == {s[i] : i \in 1..Len(s)}

(***************************************************************************)
(* Real numbers.  Every number the heuristic computes is 0 or of the form  *)
(* log2(num/den)/div with positive integers num >= den and div; the record *)
(* [num, den, div] stands for that number, so that sums, the products with *)
(* a proportion and the comparisons of id3 are exact.                      *)
(***************************************************************************)
RECURSIVE Pow(_, _)
Pow(b, e) == IF e = 0 THEN 1 ELSE b * Pow(b, e - 1)

RECURSIVE GCD(_, _)
GCD(a, b) == IF b = 0 THEN a ELSE GCD(b, a % b)

Zero == [num |-> 1, den |-> 1, div |-> 1]

IsZero(r) == r.num = r.den

\* r + s
Add(r, s) ==
    IF IsZero(r) THEN s
    ELSE IF IsZero(s) THEN r
    ELSE LET g == GCD(r.div, s.div)
         IN  [num |-> Pow(r.num, s.div \div g) * Pow(s.num, r.div \div g),
              den |-> Pow(r.den, s.div \div g) * Pow(s.den, r.div \div g),
              div |-> (r.div * s.div) \div g]

\* -(c/n) * log2(c/n), for 0 < c <= n
PLogP(c, n) == [num |-> Pow(n, c), den |-> Pow(c, c), div |-> n]

\* r * a / b, for a >= 0 and b > 0
Scale(r, a, b) ==
    IF IsZero(r) \/ a = 0 THEN Zero
    ELSE LET g == GCD(a, r.div)
         IN  [num |-> Pow(r.num, a \div g), den |-> Pow(r.den, a \div g),
              div |-> (r.div \div g) * b]

\* r < s
Less(r, s) ==
    LET g == GCD(r.div, s.div)
    IN  Pow(r.num, s.div \div g) * Pow(s.den, r.div \div g)
          < Pow(s.num, r.div \div g) * Pow(r.den, s.div \div g)

(***************************************************************************)
(* id3.py                                                                  *)
(***************************************************************************)
\* the number of items of the list equal to item
Count(items, item) == Cardinality({i \in 1..Len(items) : items[i] = item})

\* the proportion <<count, num>> of each item of the list
freq_dist(items) ==
    LET num == Len(items)
    IN  [item \in Range(items) |-> <<Count(items, item), num>>]

RECURSIVE SumPLogP(_, _)
SumPLogP(dist, keys) ==
    IF keys = {} THEN Zero
    ELSE LET k == CHOOSE k \in keys : TRUE
         IN  Add(PLogP(dist[k][1], dist[k][2]), SumPLogP(dist, keys \ {k}))

\* -sum(p * log(p, 2)) over the proportions of the distribution
entropy(dist) == SumPLogP(dist, DOMAIN dist)

Filter(dataset, name, value) ==
    SelectSeq(dataset, LAMBDA data : data[1][name] = value)

LabelsOf(dataset) == [i \in 1..Len(dataset) |-> dataset[i][2]]

RECURSIVE SumValues(_, _, _)
SumValues(feature, values, dataset) ==
    IF values = {} THEN Zero
    ELSE LET value == CHOOSE v \in values : TRUE
             filtered_dataset == Filter(dataset, feature.name, value)
             ent == entropy(freq_dist(LabelsOf(filtered_dataset)))
         IN  Add(Scale(ent, Len(filtered_dataset), Len(dataset)),
                 SumValues(feature, values \ {value}, dataset))

\* the weighted entropy id3 computes for one feature
feature_entropy(feature, dataset) == SumValues(feature, feature.values, dataset)

\* MinFrom with the comparison turned around: the greatest key wins
RECURSIVE MinFromGreatest(_, _, _, _)
MinFromGreatest(features, dataset, i, best) ==
    IF i > Len(features) THEN best
    ELSE MinFromGreatest(features, dataset, i + 1,
                 IF Less(feature_entropy(best, dataset),
                         feature_entropy(features[i], dataset))
                 THEN features[i] ELSE best)

\* min(list, key): the first element of the list with the least key
RECURSIVE MinFrom(_, _, _, _)
MinFrom(features, dataset, i, best) ==
    IF i > Len(features) THEN best
    ELSE MinFrom(features, dataset, i + 1,
                 IF Less(feature_entropy(features[i], dataset),
                         feature_entropy(best, dataset))
                 THEN features[i] ELSE best)

\* features: the candidates in iteration order; both arguments non-empty
id3(features, dataset) == MinFrom(features, dataset, 2, features[1])

\* the lists of candidate features id3 is called with: distinct names, each
\* with a non-empty set of values
FeatureObjects == {[name |-> n, values |-> V] : n \in FeatureNames, V \in SUBSET {"a", "b"}}
Candidates ==
    {c \in UNION {[1..k -> FeatureObjects] : k \in 1..Cardinality(FeatureNames)} :
        /\ \A i \in 1..Len(c) : c[i].values # {} /\ c[i].values \subseteq Dom(c[i].name)
        /\ \A i, j \in 1..Len(c) : c[i].name = c[j].name => i = j}
\* the datasets id3 is called with
Id3Datasets == SeqsUpTo(Examples(FeatureNames), MaxData) \ {<<>>}

(***************************************************************************)
(* decision_tree.py                                                        *)
(***************************************************************************)
Feature(name, values) == [name |-> name, values |-> values]

\* MaxFrom with the comparison turned around: the rarest label wins
RECURSIVE MaxFromLeast(_, _, _, _)
MaxFromLeast(labels, val_dataset, i, best) ==
    IF i > Len(labels) THEN best
    ELSE MaxFromLeast(labels, val_dataset, i + 1,
                 IF Count(LabelsOf(val_dataset), labels[i])
                      < Count(LabelsOf(val_dataset), best)
                 THEN labels[i] ELSE best)

\* max(label_count, key): the first label, in iteration order, with the
\* most entries
RECURSIVE MaxFrom(_, _, _, _)
MaxFrom(labels, val_dataset, i, best) ==
    IF i > Len(labels) THEN best
    ELSE MaxFrom(labels, val_dataset, i + 1,
                 IF Count(LabelsOf(val_dataset), labels[i])
                      > Count(LabelsOf(val_dataset), best)
                 THEN labels[i] ELSE best)

\* partition_dataset with entries only for the values present in the dataset
partition_present(feature, dataset, labels) ==
    [value \in {dataset[i][1][feature.name] : i \in 1..Len(dataset)} |->
        LET val_dataset == Filter(dataset, feature.name, value)
        IN  [dataset |-> val_dataset,
             label |-> MaxFrom(labels, val_dataset, 2, labels[1])]]

\* labels: self._labels in iteration order
partition_dataset(feature, dataset, labels) ==
    [value \in feature.values |->
        LET val_dataset == Filter(dataset, feature.name, value)
        IN  [dataset |-> val_dataset,
             label |-> MaxFrom(labels, val_dataset, 2, labels[1])]]

\* self._labels of a dataset, iterated in the order lo of all labels
build_labels(dataset, lo) ==
    SelectSeq(lo, LAMBDA l : \E i \in 1..Len(dataset) : dataset[i][2] = l)

\* self._features of a non-empty dataset, iterated in the order fo of all
\* feature names
build_features(dataset, fo) ==
    LET first == dataset[1]
        names == SelectSeq(fo, LAMBDA n : n \in DOMAIN first[1])
    IN  [k \in 1..Len(names) |->
            Feature(names[k], {dataset[i][1][names[k]] : i \in 1..Len(dataset)})]

\* Unused that drops the first feature of the iteration, not the chosen one
UnusedPopsFirst(features, feature) == Tail(features)

\* unused_features: the features without the chosen one; the copy iterates
\* in the order of the set it was copied from
Unused(features, feature) == SelectSeq(features, LAMBDA f : f # feature)

\* len(partition[value]): the number of keys of the dictionary of a value
LenEntry(entry) == Cardinality(DOMAIN entry)

RECURSIVE build_tree(_, _, _)
build_tree(features, dataset, labels) ==
    IF Len(features) = 0 \/ Len(dataset) = 0 THEN NoNode
    ELSE LET feature == id3(features, dataset)
             unused_features == Unused(features, feature)
             partition == partition_dataset(feature, dataset, labels)
             build_subtrees ==
                 Cardinality({value \in DOMAIN partition :
                                 LenEntry(partition[value]) > 0}) > 1
         IN  <<[name |-> feature.name,
                edges |-> [value \in DOMAIN partition |->
                    [label |-> partition[value].label,
                     dest |-> IF build_subtrees
                              THEN build_tree(unused_features,
                                              partition[value].dataset, labels)
                              ELSE NoNode]]]>>

\* node.edge(value): self._edges.get(value)
edge(node, value) ==
    IF value \in DOMAIN node.edges THEN <<node.edges[value]>> ELSE NoEdge

\* ClassifyFrom that never moves to a destination node
ClassifyAtNode(node, data) ==
    IF node.name \notin DOMAIN data
    THEN [raised |-> "KeyError", ret |-> <<>>]
    ELSE LET e == edge(node, data[node.name])
         IN  IF e # NoEdge
             THEN [raised |-> "", ret |-> e[1].label]
             ELSE [raised |-> "", ret |-> None]

\* the loop and the return of classify, from the node reached; data[node.name]
\* raises KeyError when the mapping has no such name
RECURSIVE ClassifyFrom(_, _)
ClassifyFrom(node, data) ==
    IF node.name \notin DOMAIN data
    THEN [raised |-> "KeyError", ret |-> <<>>]
    ELSE LET e == edge(node, data[node.name])
         IN  IF e # NoEdge /\ e[1].dest # NoNode
             THEN ClassifyFrom(e[1].dest[1], data)
             ELSE IF e # NoEdge
                  THEN [raised |-> "", ret |-> e[1].label]
                  ELSE [raised |-> "", ret |-> None]

\* classify(data) on the tree with the given root
classify(tree, data) ==
    IF tree = NoNode
    THEN [raised |-> "AttributeError", ret |-> <<>>]
    ELSE ClassifyFrom(tree[1], data)

\* a / b of true division, as the fraction <<a, b>>
Div(a, b) == <<a, b>>

\* EvaluateFrom that counts every example not classified as its label as
\* unclassified
RECURSIVE EvaluateFromElse(_, _, _, _, _)
EvaluateFromElse(tree, dataset, i, correct, nones) ==
    IF i > Len(dataset)
    THEN IF Len(dataset) = 0
         THEN [raised |-> "ZeroDivisionError", ret |-> <<>>]
         ELSE [raised |-> "",
               ret |-> <<Div(correct, Len(dataset)), Div(nones, Len(dataset))>>]
    ELSE LET c == classify(tree, dataset[i][1])
             label == dataset[i][2]
         IN  IF c.raised # "" THEN c
             ELSE IF c.ret = label
                  THEN EvaluateFromElse(tree, dataset, i + 1, correct + 1, nones)
                  ELSE EvaluateFromElse(tree, dataset, i + 1, correct, nones + 1)

\* EvaluateFrom that returns (0, 0) for a dataset without examples
RECURSIVE EvaluateFromGuarded(_, _, _, _, _)
EvaluateFromGuarded(tree, dataset, i, correct, nones) ==
    IF i > Len(dataset)
    THEN IF Len(dataset) = 0
         THEN [raised |-> "", ret |-> <<Div(0, 1), Div(0, 1)>>]
         ELSE [raised |-> "",
               ret |-> <<Div(correct, Len(dataset)), Div(nones, Len(dataset))>>]
    ELSE LET c == classify(tree, dataset[i][1])
             label == dataset[i][2]
         IN  IF c.raised # "" THEN c
             ELSE IF c.ret = label
                  THEN EvaluateFromGuarded(tree, dataset, i + 1, correct + 1, nones)
                  ELSE IF c.ret = None
                       THEN EvaluateFromGuarded(tree, dataset, i + 1, correct, nones + 1)
                       ELSE EvaluateFromGuarded(tree, dataset, i + 1, correct, nones)

\* the loop of evaluate from the i-th example on, then its return
RECURSIVE EvaluateFrom(_, _, _, _, _)
EvaluateFrom(tree, dataset, i, correct, nones) ==
    IF i > Len(dataset)
    THEN IF Len(dataset) = 0
         THEN [raised |-> "ZeroDivisionError", ret |-> <<>>]
         ELSE [raised |-> "",
               ret |-> <<Div(correct, Len(dataset)), Div(nones, Len(dataset))>>]
    ELSE LET c == classify(tree, dataset[i][1])
             label == dataset[i][2]
         IN  IF c.raised # "" THEN c
             ELSE IF c.ret = label
                  THEN EvaluateFrom(tree, dataset, i + 1, correct + 1, nones)
                  ELSE IF c.ret = None
                       THEN EvaluateFrom(tree, dataset, i + 1, correct, nones + 1)
                       ELSE EvaluateFrom(tree, dataset, i + 1, correct, nones)

\* evaluate(dataset) on the tree with the given root
evaluate(tree, dataset) == EvaluateFrom(tree, dataset, 1, 0, 0)

VARIABLES
    pc,         \* "new", "failed" (the constructor raised), "trained", "called"
    labels,     \* self._labels
    features,   \* self._features
    root,       \* self._root: NoNode or <<node>>
    prevRoot,   \* self._root before the last call of train
    op,         \* the last call
    arg,        \* its argument
    ret,        \* its return value
    raised      \* the exception it raised, "" if none

vars == <<pc, labels, features, root, prevRoot, op, arg, ret, raised>>

Init ==
    /\ pc = "new"
    /\ labels = {}
    /\ features = {}
    /\ root = NoNode
    /\ prevRoot = NoNode
    /\ op = ""
    /\ arg = <<>>
    /\ ret = <<>>
    /\ raised = ""

\* train(dataset): the effect on self._labels, self._features, self._root
TrainEffect(dataset, fo, lo) ==
    IF Len(dataset) = 0
    THEN \* dataset[0] raises after both sets were cleared
         /\ labels' = {}
         /\ features' = {}
         /\ root' = root
         /\ raised' = "IndexError"
    ELSE /\ labels' = Range(build_labels(dataset, lo))
         /\ features' = Range(build_features(dataset, fo))
         /\ root' = build_tree(build_features(dataset, fo), dataset,
                               build_labels(dataset, lo))
         /\ raised' = ""

\* DecisionTree(dataset), with the id3 heuristic
Construct(D) ==
    /\ pc = "new"
    /\ \E dataset \in D, fo \in Orders(FeatureNames), lo \in Orders(Labels) :
        /\ TrainEffect(dataset, fo, lo)
        /\ pc' = IF Len(dataset) = 0 THEN "failed" ELSE "trained"
        /\ arg' = dataset
    /\ op' = "init"
    /\ prevRoot' = NoNode
    /\ ret' = <<>>

\* tree.train(dataset) on the tree built from arg: with the same dataset
\* again, or with no example
Train ==
    /\ pc = "trained"
    /\ \E dataset \in {arg, <<>>}, fo \in Orders(FeatureNames), lo \in Orders(Labels) :
        /\ TrainEffect(dataset, fo, lo)
        /\ arg' = dataset
    /\ pc' = "called"
    /\ op' = "train"
    /\ prevRoot' = root
    /\ ret' = <<>>

\* tree.classify(data)
Classify ==
    /\ pc = "trained"
    /\ \E data \in Queries :
        /\ arg' = data
        /\ ret' = classify(root, data).ret
        /\ raised' = classify(root, data).raised
    /\ pc' = "called"
    /\ op' = "classify"
    /\ UNCHANGED <<labels, features, root, prevRoot>>

\* tree.evaluate(dataset)
Evaluate ==
    /\ pc = "trained"
    /\ \E dataset \in TestDatasets :
        /\ arg' = dataset
        /\ ret' = evaluate(root, dataset).ret
        /\ raised' = evaluate(root, dataset).raised
    /\ pc' = "called"
    /\ op' = "evaluate"
    /\ UNCHANGED <<labels, features, root, prevRoot>>

\* id3(features, dataset), called on its own: arg holds both arguments
Heuristic ==
    /\ pc = "id3"
    /\ ret' = id3(arg.features, arg.dataset)
    /\ pc' = "called"
    /\ op' = "id3"
    /\ UNCHANGED <<labels, features, root, prevRoot, arg, raised>>

\* training, retraining and classification
Next == Construct(Datasets) \/ Train \/ Classify

Spec == Init /\ [][Next]_vars

\* training and evaluation of the trees on the single feature x
NextEvaluate == Construct(EvalDatasets) \/ Train \/ Evaluate

SpecEvaluate == Init /\ [][NextEvaluate]_vars

\* the heuristic alone, on every list of candidates and every dataset
InitId3 ==
    /\ pc = "id3"
    /\ labels = {}
    /\ features = {}
    /\ root = NoNode
    /\ prevRoot = NoNode
    /\ op = ""
    /\ arg \in [features : Candidates, dataset : Id3Datasets]
    /\ ret = <<>>
    /\ raised = ""

NextId3 == Heuristic

SpecId3 == InitId3 /\ [][NextId3]_vars

(***************************************************************************)
(* The tree and the data it was trained on.  After a call of the           *)
(* constructor or of train that returned, arg is the training dataset and  *)
(* root is the tree built from it.                                         *)
(***************************************************************************)
Built == op \in {"init", "train"} /\ raised = ""

\* every node of a tree with the path to it: the <<feature, value>> of each
\* edge followed from the root
RECURSIVE NodesFrom(_, _)
NodesFrom(tree, path) ==
    IF tree = NoNode THEN {}
    ELSE {[path |-> path, node |-> tree[1]]} \cup
         UNION {NodesFrom(tree[1].edges[v].dest, Append(path, <<tree[1].name, v>>)) :
                   v \in DOMAIN tree[1].edges}

Nodes == NodesFrom(root, <<>>)

PathNames(path) == {path[k][1] : k \in 1..Len(path)}

\* the global value set of a feature, the global label set, the schema
GlobalValues(f) == {arg[i][1][f] : i \in 1..Len(arg)}
GlobalLabels == {arg[i][2] : i \in 1..Len(arg)}
Schema == DOMAIN arg[1][1]

\* the training examples that reached the node at the end of the path
Reached(path) ==
    SelectSeq(arg, LAMBDA e : \A k \in 1..Len(path) : e[1][path[k][1]] = path[k][2])

\* those of them with the value v for the feature of the node
Part(n, v) == SelectSeq(Reached(n.path), LAMBDA e : e[1][n.node.name] = v)

Occurrences(ds, l) == Cardinality({i \in 1..Len(ds) : ds[i][2] = l})

\* C6: training again on the same dataset gives a structurally identical
\* tree (same feature at every node, same edge values, same labels, same
\* destinations), whatever the iteration orders of the feature set and of
\* the label set
C6_RetrainingGivesTheSameTree ==
    (op = "train" /\ raised = "") => root = prevRoot

\* C7: a node where exactly one value of its feature has a non-empty
\* partition has no edge with a destination node
C7_NoSubtreesUnderDegenerateSplit ==
    Built =>
        \A n \in Nodes :
            Cardinality({v \in GlobalValues(n.node.name) : Len(Part(n, v)) > 0}) = 1
            => \A v \in DOMAIN n.node.edges : n.node.edges[v].dest = NoNode

\* C8: the label of the edge for v at a node is a label of the global label
\* set that no other label outnumbers among the training examples that
\* reached the node with the value v
C8_EdgeLabelIsAMode ==
    Built =>
        \A n \in Nodes : \A v \in GlobalValues(n.node.name) :
            /\ v \in DOMAIN n.node.edges
            /\ n.node.edges[v].label \in GlobalLabels
            /\ \A l \in GlobalLabels :
                  Occurrences(Part(n, v), l)
                      <= Occurrences(Part(n, v), n.node.edges[v].label)

\* a partition holding both labels, one of them more often, got the label
\* that occurs more often
C8_Witness ==
    /\ Built
    /\ \E n \in Nodes : \E v \in DOMAIN n.node.edges : \E l \in GlobalLabels :
          /\ Occurrences(Part(n, v), l) > 0
          /\ Occurrences(Part(n, v), l)
                < Occurrences(Part(n, v), n.node.edges[v].label)

\* C9: no feature name occurs twice on a path from the root, so a path has
\* at most as many nodes as the schema has features
C9_NoFeatureTwiceOnAPath ==
    Built =>
        \A n \in Nodes :
            /\ n.node.name \notin PathNames(n.path)
            /\ \A j, k \in 1..Len(n.path) : n.path[j][1] = n.path[k][1] => j = k
            /\ Len(n.path) + 1 <= Cardinality(Schema)

\* a path that uses all three features
C9_Witness ==
    /\ Built
    /\ \E n \in Nodes : Len(n.path) = 2 /\ Cardinality(Schema) = 3

\* C10: every node has exactly the edges for the values its feature takes
\* in the whole training set, also for a value no example at the node has
C10_EdgesForAllGlobalValues ==
    Built =>
        \A n \in Nodes : DOMAIN n.node.edges = GlobalValues(n.node.name)

\* a node below the root with an edge for a value of an empty partition
C10_Witness ==
    /\ Built
    /\ \E n \in Nodes : \E v \in DOMAIN n.node.edges :
          Len(n.path) > 0 /\ Len(Part(n, v)) = 0

(***************************************************************************)
(* Classification.  After a call of classify, arg is the mapping it was    *)
(* called with.                                                            *)
(***************************************************************************)
\* the nodes the traversal for the mapping q comes to: those whose path
\* follows the values of q
Visited(q) ==
    {n \in Nodes : \A k \in 1..Len(n.path) :
        n.path[k][1] \in DOMAIN q /\ q[n.path[k][1]] = n.path[k][2]}

\* q has a value for the feature of every node visited
HasVisitedValues(q) == \A n \in Visited(q) : n.node.name \in DOMAIN q

\* the nodes where the traversal stops: no edge for the value of q, or an
\* edge without destination
StopNodes(q) ==
    {n \in Visited(q) :
        /\ n.node.name \in DOMAIN q
        /\ \/ q[n.node.name] \notin DOMAIN n.node.edges
           \/ n.node.edges[q[n.node.name]].dest = NoNode}

\* the training set of the scenario of the specification, and its trees
Scenario ==
    << <<[x |-> "a"], "yes">>, <<[x |-> "a"], "yes">>, <<[x |-> "b"], "no">> >>
ScenarioTrees ==
    {build_tree(build_features(Scenario, fo), Scenario, build_labels(Scenario, lo)) :
        fo \in Orders(FeatureNames), lo \in Orders(Labels)}

C4_MissingValueIsUnclassifiable ==
    (op = "classify" /\ ~HasVisitedValues(arg)) => (raised = "" /\ ret = None)

(***************************************************************************)
(* Evaluation.  After a call of evaluate, arg is the dataset it was called *)
(* with.                                                                   *)
(***************************************************************************)
\* the examples of the dataset that classify maps to their label, to None
Correct(ds) ==
    {i \in 1..Len(ds) : classify(root, ds[i][1]).raised = ""
                        /\ classify(root, ds[i][1]).ret = ds[i][2]}
Unclassified(ds) ==
    {i \in 1..Len(ds) : classify(root, ds[i][1]).raised = ""
                        /\ classify(root, ds[i][1]).ret = None}

C5_EmptyDatasetRaises ==
    /\ (op \in {"init", "train"} /\ Len(arg) = 0) => raised # ""
    /\ (op = "evaluate" /\ Len(arg) = 0) => (raised # "" /\ ret = <<>>)

\* evaluate was called with no example
C5_Witness ==
    /\ op = "evaluate"
    /\ Len(arg) = 0
    /\ raised = "ZeroDivisionError"

(***************************************************************************)
(* The heuristic.  The weighted entropy of a feature f on a dataset of N   *)
(* examples, n(v) of them with f = v and c(v,l) of these with label l, is  *)
(*   sum over v of n(v)/N * sum over l of -(c(v,l)/n(v)) log2(c(v,l)/n(v)) *)
(*   = log2(E)/N  with  E = prod n(v)^n(v) / prod c(v,l)^c(v,l)            *)
(* (0^0 = 1), so on one dataset the weighted entropies compare as the      *)
(* fractions E do.                                                         *)
(***************************************************************************)
WithValue(ds, f, v) == {i \in 1..Len(ds) : ds[i][1][f.name] = v}
WithValueAndLabel(ds, f, v, l) == {i \in WithValue(ds, f, v) : ds[i][2] = l}

\* the product of the values of the function t over the set S
RECURSIVE Product(_, _)
Product(S, t) ==
    IF S = {} THEN 1
    ELSE LET e == CHOOSE e \in S : TRUE
         IN  t[e] * Product(S \ {e}, t)

SelfPow(k) == Pow(k, k)

ExpNum(f, ds) ==
    Product(f.values,
            [v \in f.values |-> SelfPow(Cardinality(WithValue(ds, f, v)))])
ExpDen(f, ds) ==
    Product(f.values \X Labels,
            [p \in f.values \X Labels |->
                SelfPow(Cardinality(WithValueAndLabel(ds, f, p[1], p[2])))])

\* the weighted entropy of f is at most that of g
WeightedEntropyLeq(f, g, ds) ==
    ExpNum(f, ds) * ExpDen(g, ds) <= ExpNum(g, ds) * ExpDen(f, ds)

\* every subset of the split by f carries a single label
SplitsPurely(f, ds) ==
    \A v \in f.values : \A i, j \in WithValue(ds, f, v) : ds[i][2] = ds[j][2]

\* C2: id3 returns a candidate whose weighted entropy no other candidate
\* undercuts; when some candidate splits the dataset into single-label
\* subsets, so does the one returned
C2_Id3ReturnsAMinimum ==
    op = "id3" =>
        LET cands == Range(arg.features)
        IN  /\ ret \in cands
            /\ \A g \in cands : WeightedEntropyLeq(ret, g, arg.dataset)
            /\ (\E g \in cands : SplitsPurely(g, arg.dataset))
                  => SplitsPurely(ret, arg.dataset)

\* the last candidate of three is returned: it undercuts both others and
\* still leaves a subset with two labels
C2_Witness ==
    /\ op = "id3"
    /\ Len(arg.features) = 3
    /\ ret = arg.features[3]
    /\ ~SplitsPurely(ret, arg.dataset)
    /\ \A g \in Range(arg.features) \ {ret} : ~WeightedEntropyLeq(g, ret, arg.dataset)

\* a traversal that followed two edges and stopped at a node of the third
\* level
DeepClassification ==
    /\ op = "classify"
    /\ \E n \in StopNodes(arg) : Len(n.path) = 2
    /\ ret \in Labels

\* a tree without root: the training examples have no feature
RootlessClassification ==
    /\ op = "classify"
    /\ root = NoNode
    /\ raised = "AttributeError"
====
